---- MODULE Spec2Model ----
(***************************************************************************)
(* Model of src/src/serverBrowser.py: the client of the Chivalry 2 server  *)
(* browser backend.  Each of the five module functions is one action: it   *)
(* binds its arguments, issues its HTTP request, receives a response       *)
(* (chosen from the bounded set Responses) and returns or raises.          *)
(*                                                                         *)
(* Texts that the code builds by concatenation or str.format are kept as   *)
(* sequences of segments (the text is their concatenation), so that        *)
(* "the message contains X" is "X is a segment of the message".            *)
(***************************************************************************)
EXTENDS Integers, Sequences, FiniteSets, TLC

VARIABLES
    defaultMods,  \* the list object bound to registerServer's default mods=[]
    ncalls,       \* number of calls made so far
    call,         \* the last call: its function name and arguments as passed
    sent,         \* the HTTP requests issued by the last call, in order
    got,          \* the HTTP responses received by the last call, in order
    outcome       \* how the last call ended: a return value or a raised exception

vars == <<defaultMods, ncalls, call, sent, got, outcome>>

\* Number of calls in a run.
MaxCalls == 2

-----------------------------------------------------------------------------
(* JSON documents as Python sees them after response.json().               *)

JStr(s)   == [t |-> "str", s |-> s]
JInt(n)   == [t |-> "int", v |-> n]
\* A Python float with one decimal digit: tenths = 1235 is 123.5.
JFloat(n) == [t |-> "float", tenths |-> n]
JNull     == [t |-> "null"]
JArr(xs)  == [t |-> "arr", items |-> xs]
JObj(f)   == [t |-> "obj", f |-> f]
\* A body that is not JSON: response.json() raises on it.
NotJson(s) == [t |-> "raw", text |-> s]

\* The empty dict and building a dict from keys.
EmptyFields == [k \in {} |-> JNull]
Restrict(f, ks) == [k \in (DOMAIN f \cap ks) |-> f[k]]

-----------------------------------------------------------------------------
(* Bounded inputs.                                                         *)

\* Every status class and the edges of the ranges the code tests.
Statuses == {100, 200, 204, 304, 399, 400, 404, 499, 500, 503, 599, 600}
\* One status of each kind of handling, paired with every body.
CoreStatuses == {200, 304, 404, 503}

Addresses == {"http://0.0.0.0:8080"}
\* (unique_id, key) pairs a caller holds.
Registrations == {<<"abc", "k">>, <<"xyz", "k2">>}

\* Error bodies: all three fields, one or all of them missing, non-string values.
FullError == [message |-> JStr("not found"), context |-> JStr("server"),
              status |-> JStr("error")]
ErrorBodies ==
    { JObj(Restrict(FullError, ks)) :
        ks \in {{"message", "context", "status"}, {"context", "status"},
                {"message", "status"}, {"message", "context"}, {}} }
    \cup { JObj([message |-> JStr("denied"), context |-> JInt(7), status |-> JNull]) }

\* Values a backend may put in refresh_before.
RefreshValues == { JInt(123), JFloat(1235), JStr("123.5"), JStr("soon"), JNull }

FullRegistration(u, k, r) ==
    [server |-> JObj([unique_id |-> JStr(u), name |-> JStr("srv")]),
     key |-> JStr(k), refresh_before |-> r]

RegistrationBodies ==
    { JObj(FullRegistration("abc", "k", r)) : r \in RefreshValues }
    \cup { JObj(FullRegistration("xyz", "k2", JFloat(1235))) }
    \cup { JObj(Restrict(FullRegistration("abc", "k", JFloat(1235)), ks)) :
             ks \in {{"key", "refresh_before"}, {"server", "refresh_before"},
                     {"server", "key"}} }
    \cup { JObj([server |-> JObj(EmptyFields), key |-> JStr("k"),
                 refresh_before |-> JInt(123)]) }

ListBodies ==
    { JObj([servers |-> JArr(<<>>)]),
      JObj([servers |-> JArr(<<JObj([unique_id |-> JStr("x")])>>)]) }

OtherBodies == { NotJson("<html>Bad Gateway</html>"), JNull, JArr(<<>>) }

Bodies == ErrorBodies \cup RegistrationBodies \cup ListBodies \cup OtherBodies

\* One body of each kind, paired with every status.
CoreBodies ==
    { JObj(FullError), NotJson("<html>Bad Gateway</html>"),
      JObj(FullRegistration("abc", "k", JFloat(1235))),
      JObj([servers |-> JArr(<<>>)]) }

Responses ==
    [status_code : Statuses, body : CoreBodies]
    \cup [status_code : CoreStatuses, body : Bodies]

-----------------------------------------------------------------------------
(* Python values and operations the code relies on.                        *)

\* The result of evaluating an expression: a value or a raised exception.
Val(v) == [ok |-> TRUE, v |-> v]
Exc(e) == [ok |-> FALSE, exc |-> e]

\* How a call ends.
Return(v)     == [kind |-> "return", value |-> v]
Raise(e, msg) == [kind |-> "raise", exc |-> e, msg |-> msg]
PyNone        == [t |-> "null"]

\* An argument that the caller may leave out: <<>> or <<value>>.
Opt(S) == {<<>>} \cup {<<x>> : x \in S}
Arg(opt, default) == IF opt = <<>> THEN default ELSE opt[1]

\* v[k] for a string key k: a dict looks the key up, anything else is a TypeError.
GetItem(v, k) ==
    IF v.t = "obj"
    THEN IF k \in DOMAIN v.f THEN Val(v.f[k]) ELSE Exc("KeyError")
    ELSE Exc("TypeError")

\* The strings of the model that float() accepts as decimal literals, in tenths.
DecimalLiterals == ("123.5" :> 1235)

\* float(v)
PyFloat(v) ==
    CASE v.t = "int"   -> Val(JFloat(v.v * 10))
      [] v.t = "float" -> Val(v)
      [] v.t = "str"   -> IF v.s \in DOMAIN DecimalLiterals
                          THEN Val(JFloat(DecimalLiterals[v.s]))
                          ELSE Exc("ValueError")
      [] OTHER         -> Exc("TypeError")

\* str(v), as str.format("{}") and str() render a value.
PyStr(v) ==
    CASE v.t = "str"   -> v.s
      [] v.t = "int"   -> ToString(v.v)
      [] v.t = "float" -> ToString(v.tenths \div 10) \o "." \o ToString(v.tenths % 10)
      [] v.t = "null"  -> "None"

\* response.json()
ResponseJson(response) ==
    IF response.body.t = "raw" THEN Exc("JSONDecodeError") ELSE Val(response.body)

\* Faulty variant: only 2xx counts as ok.
OkOnly2xx(status_code) == 200 <= status_code /\ status_code < 300

\* requests.Response.ok: raise_for_status() raises exactly for 400 <= status < 600.
Ok(status_code) == ~(400 <= status_code /\ status_code < 600)

-----------------------------------------------------------------------------
(* __buildError and __checkResponse.                                       *)

\* The format arguments are evaluated left to right; the first failing
\* subscript raises and no message is built.
buildErrorNoContext(errorCode, errResponse) ==
    LET m == GetItem(errResponse, "message")
        s == GetItem(errResponse, "status")
    IN  IF ~m.ok THEN m
        ELSE IF ~s.ok THEN s
        ELSE Val(<<"Server could not be updated: error ", ToString(errorCode),
                   ".\nMessage: ", PyStr(m.v), "\nContext: ", "\nStatus: ",
                   PyStr(s.v), "\n">>)

buildError(errorCode, errResponse) ==
    LET m == GetItem(errResponse, "message")
        c == GetItem(errResponse, "context")
        s == GetItem(errResponse, "status")
    IN  IF ~m.ok THEN m
        ELSE IF ~c.ok THEN c
        ELSE IF ~s.ok THEN s
        ELSE Val(<<"Server could not be updated: error ", ToString(errorCode),
                   ".\nMessage: ", PyStr(m.v), "\nContext: ", PyStr(c.v),
                   "\nStatus: ", PyStr(s.v), "\n">>)

\* The outcome of a raise whose message expression may itself raise.
RaiseRuntimeError(text) ==
    IF text.ok THEN Raise("RuntimeError", text.v) ELSE Raise(text.exc, <<>>)

\* Faulty variant: the 5xx test is inverted, so a 5xx body is formatted into the message.
checkResponseEcho5xx(response) ==
    LET parsed == ResponseJson(response)
    IN  IF ~parsed.ok
        THEN Raise("RuntimeError",
                   <<"Server error (could not parse response body): ",
                     ToString(response.status_code)>>)
        ELSE IF 500 <= response.status_code /\ response.status_code < 600
        THEN RaiseRuntimeError(buildError(response.status_code, parsed.v))
        ELSE Raise("RuntimeError", <<"Server error: ", ToString(response.status_code)>>)

\* Faulty variant: the status class is tested before the body is parsed.
checkResponseStatusFirst(response) ==
    LET parsed == ResponseJson(response)
    IN  IF 500 <= response.status_code /\ response.status_code < 600
        THEN Raise("RuntimeError", <<"Server error: ", ToString(response.status_code)>>)
        ELSE IF ~parsed.ok
        THEN Raise(parsed.exc, <<>>)
        ELSE RaiseRuntimeError(buildError(response.status_code, parsed.v))

checkResponse(response) ==
    LET parsed == ResponseJson(response)
    IN  IF ~parsed.ok
        THEN Raise("RuntimeError",
                   <<"Server error (could not parse response body): ",
                     ToString(response.status_code)>>)
        ELSE IF ~(500 <= response.status_code /\ response.status_code < 600)
        THEN RaiseRuntimeError(buildError(response.status_code, parsed.v))
        ELSE Raise("RuntimeError", <<"Server error: ", ToString(response.status_code)>>)

-----------------------------------------------------------------------------
(* HTTP requests as handed to the requests library.                        *)

NoHeaders == [h \in {} |-> ""]
\* json=<<>>: no json argument (no body); json=<<b>>: b is serialised as the body.
Request(method, url, headers, json) ==
    [method |-> method, url |-> url, headers |-> headers, json |-> json]

KeyHeaderName == "x-chiv2-server-browser-key"

\* What a call did: the requests it issued, the responses it received, how it
\* ended, and the default mods list as the call leaves it.
Done(requests, responses, result, mods) ==
    [sent |-> requests, got |-> responses, outcome |-> result, defaultMods |-> mods]

-----------------------------------------------------------------------------
(* registerServer                                                          *)

DefaultGamePort  == 7777
DefaultPingPort  == 3075
DefaultQueryPort == 7071
DefaultCount     == -1

RegisterArgs ==
    [gamePort : Opt({7778}), pingPort : {<<>>}, queryPort : {<<7072>>},
     name : {<<"Duel yard">>}, description : {<<>>}, current_map : {<<"Galencourt">>},
     player_count : {<<12>>}, max_players : {<<>>}, mods : Opt({<<"modA">>})]

serverObj(a, mods) ==
    [ports |-> [game |-> Arg(a.gamePort, DefaultGamePort),
                ping |-> Arg(a.pingPort, DefaultPingPort),
                a2s  |-> Arg(a.queryPort, DefaultQueryPort)],
     name |-> Arg(a.name, "Chivalry 2 Server"),
     description |-> Arg(a.description, "No description"),
     current_map |-> Arg(a.current_map, "Unknown"),
     player_count |-> Arg(a.player_count, DefaultCount),
     max_players |-> Arg(a.max_players, DefaultCount),
     mods |-> Arg(a.mods, mods)]

\* Faulty variant: key and unique_id change places in the returned tuple.
registerServerResultSwapped(response) ==
    LET js == ResponseJson(response)
        server == GetItem(js.v, "server")
        uid == GetItem(server.v, "unique_id")
        key == GetItem(js.v, "key")
        rb  == GetItem(js.v, "refresh_before")
        fl  == PyFloat(rb.v)
    IN  IF ~js.ok THEN Raise(js.exc, <<>>)
        ELSE IF ~server.ok THEN Raise(server.exc, <<>>)
        ELSE IF ~uid.ok THEN Raise(uid.exc, <<>>)
        ELSE IF ~key.ok THEN Raise(key.exc, <<>>)
        ELSE IF ~rb.ok THEN Raise(rb.exc, <<>>)
        ELSE IF ~fl.ok THEN Raise(fl.exc, <<>>)
        ELSE Return(<<key.v, uid.v, fl.v>>)

\* The else branch: the tuple's elements are evaluated left to right.
registerServerResult(response) ==
    LET js == ResponseJson(response)
        server == GetItem(js.v, "server")
        uid == GetItem(server.v, "unique_id")
        key == GetItem(js.v, "key")
        rb  == GetItem(js.v, "refresh_before")
        fl  == PyFloat(rb.v)
    IN  IF ~js.ok THEN Raise(js.exc, <<>>)
        ELSE IF ~server.ok THEN Raise(server.exc, <<>>)
        ELSE IF ~uid.ok THEN Raise(uid.exc, <<>>)
        ELSE IF ~key.ok THEN Raise(key.exc, <<>>)
        ELSE IF ~rb.ok THEN Raise(rb.exc, <<>>)
        ELSE IF ~fl.ok THEN Raise(fl.exc, <<>>)
        ELSE Return(<<uid.v, key.v, fl.v>>)

\* Faulty variant: the call records the mods it sent in the shared default list.
registerServerCallKeepsMods(address, a, response, mods) ==
    LET request == Request("POST", address \o "/api/v1/servers", NoHeaders,
                           <<serverObj(a, mods)>>)
    IN  Done(<<request>>, <<response>>,
             IF ~Ok(response.status_code) THEN checkResponse(response)
             ELSE registerServerResult(response),
             IF a.mods = <<>> THEN Append(mods, "registered") ELSE mods)

registerServerCall(address, a, response, mods) ==
    LET request == Request("POST", address \o "/api/v1/servers", NoHeaders,
                           <<serverObj(a, mods)>>)
    IN  Done(<<request>>, <<response>>,
             IF ~Ok(response.status_code) THEN checkResponse(response)
             ELSE registerServerResult(response),
             mods)

-----------------------------------------------------------------------------
(* updateServer, delete, heartbeat, getServerList                          *)

\* Faulty variant: the header carries a key remembered from elsewhere.
KeyHeadersStale(key) == (KeyHeaderName :> "k")

\* updateHeaders / heartbeatHeaders
KeyHeaders(key) == (KeyHeaderName :> key)

UpdateArgs == [player_count : {12}, max_players : {64}, current_map : {"Galencourt"}]

updateBody(a) ==
    [player_count |-> a.player_count, max_players |-> a.max_players,
     current_map |-> a.current_map]

\* Faulty variant: a failed update is sent once more before the error is raised.
updateServerCallRetry(address, unique_id, key, a, response, mods) ==
    LET request == Request("PUT", address \o "/api/v1/servers/" \o unique_id,
                           KeyHeaders(key), <<updateBody(a)>>)
    IN  IF ~Ok(response.status_code)
        THEN Done(<<request, request>>, <<response, response>>,
                  checkResponse(response), mods)
        ELSE Done(<<request>>, <<response>>, Return(PyNone), mods)

updateServerCall(address, unique_id, key, a, response, mods) ==
    LET request == Request("PUT", address \o "/api/v1/servers/" \o unique_id,
                           KeyHeaders(key), <<updateBody(a)>>)
    IN  Done(<<request>>, <<response>>,
             IF ~Ok(response.status_code) THEN checkResponse(response)
             ELSE Return(PyNone),
             mods)

deleteCall(address, unique_id, key, response, mods) ==
    LET request == Request("DELETE", address \o "/api/v1/servers/" \o unique_id,
                           KeyHeaders(key), <<EmptyFields>>)
    IN  Done(<<request>>, <<response>>,
             IF ~Ok(response.status_code) THEN checkResponse(response)
             ELSE Return(PyNone),
             mods)

\* Faulty variant: the deadline is returned as decoded, without float().
heartbeatResultNoFloat(response) ==
    LET js == ResponseJson(response)
        rb == GetItem(js.v, "refresh_before")
    IN  IF ~js.ok THEN Raise(js.exc, <<>>)
        ELSE IF ~rb.ok THEN Raise(rb.exc, <<>>)
        ELSE Return(rb.v)

heartbeatResult(response) ==
    LET js == ResponseJson(response)
        rb == GetItem(js.v, "refresh_before")
        fl == PyFloat(rb.v)
    IN  IF ~js.ok THEN Raise(js.exc, <<>>)
        ELSE IF ~rb.ok THEN Raise(rb.exc, <<>>)
        ELSE IF ~fl.ok THEN Raise(fl.exc, <<>>)
        ELSE Return(fl.v)

\* port has no default: a call that leaves it out fails to bind (TypeError)
\* before the body runs.  A port that is passed is not used.
heartbeatCall(address, unique_id, key, port, response, mods) ==
    LET request == Request("POST",
                           address \o "/api/v1/servers/" \o unique_id \o "/heartbeat",
                           KeyHeaders(key), <<>>)
    IN  IF port = <<>>
        THEN Done(<<>>, <<>>, Raise("TypeError", <<>>), mods)
        ELSE Done(<<request>>, <<response>>,
                  IF ~Ok(response.status_code) THEN checkResponse(response)
                  ELSE heartbeatResult(response),
                  mods)

getServerListResult(response) ==
    LET js == ResponseJson(response)
        servers == GetItem(js.v, "servers")
    IN  IF ~js.ok THEN Raise(js.exc, <<>>)
        ELSE IF ~servers.ok THEN Raise(servers.exc, <<>>)
        ELSE Return(servers.v)

getServerListCall(address, response, mods) ==
    LET request == Request("GET", address \o "/api/v1/servers", NoHeaders, <<>>)
    IN  Done(<<request>>, <<response>>,
             IF ~Ok(response.status_code) THEN checkResponse(response)
             ELSE getServerListResult(response),
             mods)

-----------------------------------------------------------------------------
(* The client as a state machine: one action per module function.          *)

NoCall == [fn |-> "none"]

Init ==
    /\ defaultMods = <<>>
    /\ ncalls = 0
    /\ call = NoCall
    /\ sent = <<>>
    /\ got = <<>>
    /\ outcome = [kind |-> "none"]

\* The call is recorded and its effects become the state.
Finish(c, d) ==
    /\ ncalls' = ncalls + 1
    /\ call' = c
    /\ sent' = d.sent
    /\ got' = d.got
    /\ outcome' = d.outcome
    /\ defaultMods' = d.defaultMods

registerServer ==
    /\ ncalls < MaxCalls
    /\ \E address \in Addresses, a \in RegisterArgs, response \in Responses :
         Finish([fn |-> "registerServer", address |-> address, args |-> a],
                registerServerCall(address, a, response, defaultMods))

updateServer ==
    /\ ncalls < MaxCalls
    /\ \E address \in Addresses, reg \in Registrations, a \in UpdateArgs,
          response \in Responses :
         Finish([fn |-> "updateServer", address |-> address, unique_id |-> reg[1],
                 key |-> reg[2], args |-> a],
                updateServerCall(address, reg[1], reg[2], a, response, defaultMods))

delete ==
    /\ ncalls < MaxCalls
    /\ \E address \in Addresses, reg \in Registrations, response \in Responses :
         Finish([fn |-> "delete", address |-> address, unique_id |-> reg[1],
                 key |-> reg[2]],
                deleteCall(address, reg[1], reg[2], response, defaultMods))

heartbeat ==
    /\ ncalls < MaxCalls
    /\ \E address \in Addresses, reg \in Registrations, port \in Opt({7777}),
          response \in Responses :
         Finish([fn |-> "heartbeat", address |-> address, unique_id |-> reg[1],
                 key |-> reg[2], port |-> port],
                heartbeatCall(address, reg[1], reg[2], port, response, defaultMods))

getServerList ==
    /\ ncalls < MaxCalls
    /\ \E address \in Addresses, response \in Responses :
         Finish([fn |-> "getServerList", address |-> address],
                getServerListCall(address, response, defaultMods))

Next ==
    \/ registerServer
    \/ updateServer
    \/ delete
    \/ heartbeat
    \/ getServerList

Spec == Init /\ [][Next]_vars

-----------------------------------------------------------------------------
(* Properties.  They speak of the last call: call, sent, got, outcome.     *)

Is2xx(s) == 200 <= s /\ s < 300
Is5xx(s) == 500 <= s /\ s < 600
\* The call received a response.
Answered == call.fn # "none" /\ got # <<>>
Status == got[1].status_code
Body == got[1].body
Raised(e) == outcome.kind = "raise" /\ outcome.exc = e
Contains(msg, text) == \E i \in DOMAIN msg : msg[i] = text
HasKeys(v, ks) == v.t = "obj" /\ ks \subseteq DOMAIN v.f
IsNumber(v) == v.t \in {"int", "float"}
\* A JSON number as a float, in tenths.
AsFloat(v) == IF v.t = "int" THEN JFloat(10 * v.v) ELSE v

\* Every text a body carries: its raw text, its keys and its rendered values.
RECURSIVE TextsOf(_)
TextsOf(v) ==
    CASE v.t = "raw" -> {v.text}
      [] v.t = "obj" -> DOMAIN v.f \cup UNION { TextsOf(v.f[k]) : k \in DOMAIN v.f }
      [] v.t = "arr" -> UNION { TextsOf(v.items[i]) : i \in DOMAIN v.items }
      [] OTHER       -> {PyStr(v)}

C2_UniformError ==
    (Answered /\ ~Ok(Status)) =>
        /\ Raised("RuntimeError")
        /\ Contains(outcome.msg, ToString(Status))

\* C3: a 5xx answer, parseable or not, raises a RuntimeError whose message holds
\* the status code and no text of the response body.
C3_ServerErrorHidesBody ==
    (Answered /\ Is5xx(Status)) =>
        /\ Raised("RuntimeError")
        /\ Contains(outcome.msg, ToString(Status))
        /\ \A i \in DOMAIN outcome.msg : outcome.msg[i] \notin TextsOf(Body)

\* A call answered 503 with a full JSON error body raised.
C3_Witness ==
    /\ Answered /\ Status = 503 /\ Body = JObj(FullError)
    /\ Raised("RuntimeError")

\* C4: a failure answer (response.ok false) that is not 5xx and whose body is an
\* object with string message, context and status raises a RuntimeError whose
\* message holds the status code and the three values.
C4_DetailedError ==
    (/\ Answered /\ ~Ok(Status) /\ ~Is5xx(Status)
     /\ HasKeys(Body, {"message", "context", "status"})
     /\ \A k \in {"message", "context", "status"} : Body.f[k].t = "str") =>
        /\ Raised("RuntimeError")
        /\ Contains(outcome.msg, ToString(Status))
        /\ \A k \in {"message", "context", "status"} :
              Contains(outcome.msg, Body.f[k].s)

\* A call answered 404 with the full error body raised the detailed error.
C4_Witness ==
    /\ Answered /\ Status = 404 /\ Body = JObj(FullError)
    /\ Raised("RuntimeError") /\ Contains(outcome.msg, "not found")

\* C5: a failure answer (response.ok false: 4xx as well as 5xx) whose body is not
\* JSON raises the generic could-not-parse error with the status code; the
\* detailed branch is not taken.
C5_UnparseableIsGeneric ==
    (Answered /\ ~Ok(Status) /\ Body.t = "raw") =>
        outcome = Raise("RuntimeError",
                        <<"Server error (could not parse response body): ",
                          ToString(Status)>>)

\* A call answered 404 with a body that is not JSON raised.
C5_Witness ==
    /\ Answered /\ Status = 404 /\ Body.t = "raw"
    /\ Raised("RuntimeError")

\* The request each function is to send, written out from its arguments.
ServersUrl == call.address \o "/api/v1/servers"
ServerUrl  == call.address \o "/api/v1/servers/" \o call.unique_id
OnlyKeyHeader(h) == DOMAIN h = {KeyHeaderName} /\ h[KeyHeaderName] = call.key

\* C6: update, delete and heartbeat send the key header with exactly the key
\* passed to that call and nothing else that authenticates (no other header, no
\* key in the body); register and getServerList send no header.
C6_KeyHeader ==
    \A i \in DOMAIN sent :
        /\ call.fn \in {"updateServer", "delete", "heartbeat"} =>
              OnlyKeyHeader(sent[i].headers)
        /\ call.fn = "updateServer" =>
              /\ Len(sent[i].json) = 1
              /\ DOMAIN sent[i].json[1] = {"player_count", "max_players", "current_map"}
        /\ call.fn = "delete" => sent[i].json = <<EmptyFields>>
        /\ call.fn = "heartbeat" => sent[i].json = <<>>
        /\ call.fn \in {"registerServer", "getServerList"} =>
              DOMAIN sent[i].headers = {}

\* An update called with key k2 sent k2 in the header.
C6_Witness ==
    /\ call.fn = "updateServer" /\ call.key = "k2" /\ Len(sent) = 1
    /\ sent[1].headers[KeyHeaderName] = "k2"

\* C7: when the answer is ok and its body is {server:{unique_id:U,..}, key:K,
\* refresh_before:R} with R a number, register returns the triple (U, K, R as a
\* float), U and K unchanged; and whenever register returns, it returns a triple
\* whose third component is a float.
C7_RegisterTriple ==
    (Answered /\ call.fn = "registerServer") =>
        /\ (/\ Ok(Status)
            /\ HasKeys(Body, {"server", "key", "refresh_before"})
            /\ HasKeys(Body.f.server, {"unique_id"})
            /\ IsNumber(Body.f.refresh_before)) =>
              outcome = Return(<<Body.f.server.f.unique_id, Body.f.key,
                                 AsFloat(Body.f.refresh_before)>>)
        /\ outcome.kind = "return" =>
              /\ Len(outcome.value) = 3
              /\ outcome.value[3].t = "float"

\* A register answered 200 with unique_id abc, key k and the integer deadline 123
\* returned ("abc", "k", 123.0).
C7_Witness ==
    /\ Answered /\ call.fn = "registerServer" /\ Status = 200
    /\ Body = JObj(FullRegistration("abc", "k", JInt(123)))
    /\ outcome = Return(<<JStr("abc"), JStr("k"), JFloat(1230)>>)

\* The one request heartbeat is to send.
HeartbeatRequest ==
    Request("POST", ServerUrl \o "/heartbeat", (KeyHeaderName :> call.key), <<>>)

\* C8 as stated: heartbeat called with the three arguments address, unique_id and
\* key issues its one POST.
C8_ThreeArguments ==
    (call.fn = "heartbeat" /\ call.port = <<>>) => sent = <<HeartbeatRequest>>

\* C8 amended: heartbeat called with its four arguments (address, unique_id, key,
\* port) issues one POST to {address}/api/v1/servers/{unique_id}/heartbeat with
\* the key header and no body, the port being sent nowhere, and on an ok answer
\* whose refresh_before is a number returns it as a float; called without port
\* it raises TypeError and sends nothing.
C8_HeartbeatFourArguments ==
    call.fn = "heartbeat" =>
        /\ call.port # <<>> =>
              /\ sent = <<HeartbeatRequest>>
              /\ (Ok(Status) /\ HasKeys(Body, {"refresh_before"})
                    /\ IsNumber(Body.f.refresh_before)) =>
                    outcome = Return(AsFloat(Body.f.refresh_before))
        /\ call.port = <<>> => (sent = <<>> /\ Raised("TypeError"))

\* A heartbeat with a port, answered 200 with the integer deadline 123, returned
\* the float 123.0.
C8_Witness ==
    /\ call.fn = "heartbeat" /\ call.port # <<>> /\ Answered /\ Status = 200
    /\ Body = JObj(FullRegistration("abc", "k", JInt(123)))
    /\ outcome = Return(JFloat(1230))

\* The call's arguments matched the function's parameters, so its body ran.
Entered == call.fn # "none" /\ ~(call.fn = "heartbeat" /\ call.port = <<>>)

\* C9: every call that enters its function issues exactly one request and
\* receives exactly one response, whether it then returns or raises; no call
\* issues more than one.
C9_OneRequest ==
    /\ Len(sent) <= 1
    /\ Len(got) = Len(sent)
    /\ Entered => (Len(sent) = 1 /\ outcome.kind \in {"return", "raise"})

\* An update answered 503 raised after its single request.
C9_Witness ==
    /\ call.fn = "updateServer" /\ Answered /\ Status = 503
    /\ Raised("RuntimeError") /\ Len(sent) = 1

\* What the last call does when it is the first call of a fresh client.
AsFirstCall ==
    CASE call.fn = "registerServer" ->
            registerServerCall(call.address, call.args, got[1], <<>>)
      [] call.fn = "updateServer" ->
            updateServerCall(call.address, call.unique_id, call.key, call.args,
                             got[1], <<>>)
      [] call.fn = "delete" ->
            deleteCall(call.address, call.unique_id, call.key, got[1], <<>>)
      [] call.fn = "heartbeat" ->
            heartbeatCall(call.address, call.unique_id, call.key, call.port,
                          IF got = <<>> THEN [status_code |-> 200, body |-> JNull]
                          ELSE got[1], <<>>)
      [] call.fn = "getServerList" ->
            getServerListCall(call.address, got[1], <<>>)

\* C10: the default mods list is never changed; a call, wherever it comes in a
\* sequence of calls, sends the request and ends the way the same call with the
\* same answer does as the first call; a register that omits mods sends mods = [];
\* and the unique_id and key in a request are those of the call's own arguments.
C10_Stateless ==
    /\ defaultMods = <<>>
    /\ call.fn # "none" =>
          /\ sent = AsFirstCall.sent
          /\ outcome = AsFirstCall.outcome
    /\ (call.fn = "registerServer" /\ call.args.mods = <<>>) =>
          sent[1].json[1].mods = <<>>
    /\ (call.fn \in {"updateServer", "delete"} /\ sent # <<>>) =>
          (sent[1].url = ServerUrl /\ OnlyKeyHeader(sent[1].headers))
    /\ (call.fn \in {"registerServer", "getServerList"} /\ sent # <<>>) =>
          sent[1].url = ServersUrl

\* A register that omitted mods, made as the second call, sent mods = [].
C10_Witness ==
    /\ ncalls = 2 /\ call.fn = "registerServer" /\ call.args.mods = <<>>
    /\ sent[1].json[1].mods = <<>>

====
